---- MODULE Spec2Model ----
(***************************************************************************)
(* A model of support/support.py: the answer-submission command           *)
(* (submit_solution), the download command (download_challenge), and the  *)
(* grid helpers (adjacent_4, adjacent_8, parse_coords_hash,               *)
(* format_coords_hash, Direction4).                                       *)
(*                                                                         *)
(* One behaviour is one short-lived process (or one use of a helper):     *)
(* Init draws which entry point runs (cmd) and its inputs; the actions    *)
(* are the steps of that entry point.                                     *)
(*                                                                         *)
(* Text is a sequence of tokens. A token is either a single character     *)
(* (".", "?", "\n", "#", " ") or one of the fixed phrases the code        *)
(* searches for. No phrase contains ".", "?" or a line break, no phrase   *)
(* is part of another, and no phrase can start inside another phrase, so  *)
(* a regular-expression search over the characters finds a phrase exactly *)
(* where the token stands.                                                *)
(***************************************************************************)
EXTENDS Integers, Sequences, FiniteSets, TLC

VARIABLES
    cmd,      \* the entry point this process runs
    pc,       \* where the process is
    cwd_ok,   \* whether os.getcwd() is .../aocYYYY/dayDD (get_year_day)
    day,      \* the day get_year_day returns
    res_ok,   \* requests' res.ok of the last HTTP response
    res_text, \* res.text of the last HTTP response
    branch,   \* the branch of submit_solution that returned
    stdout,   \* the lines printed so far
    status,   \* <<>> while running, <<code>> once the process has ended
    files,    \* the working directory: file name -> <<>> (absent) or <<content>>
    coords,   \* the coordinate set handed to format_coords_hash
    text,     \* the string format_coords_hash returned
    parsed,   \* the set parse_coords_hash returned
    xy,       \* the coordinate handed to adjacent_4 / adjacent_8
    gen,      \* [fn, k]: the running generator and how many loop steps it has taken
    yielded,  \* what the generator has yielded so far
    d,        \* the current Direction4 value
    pos,      \* the current coordinate
    hist      \* the start and then each operation applied: [op, n, d, pos] after it

cliVars  == <<cwd_ok, day, res_ok, res_text, branch, stdout, status, files>>
gridVars == <<coords, text, parsed>>
adjVars  == <<xy, gen, yielded>>
dirVars  == <<d, pos, hist>>
vars     == <<cmd, pc, cliVars, gridVars, adjVars, dirVars>>

----------------------------------------------------------------------------
(* Bounds *)

MaxBody  == 4   \* tokens in a submission response body
MaxPage  == 2   \* tokens in a puzzle page
MaxInput == 3   \* tokens in a puzzle input
GridMax  == 1   \* grid coordinates range over -1 .. GridMax
MaxCells == 3   \* coordinates in a sparse grid
AdjMax   == 2   \* adjacency is taken at coordinates in -AdjMax .. AdjMax
MaxOps   == 3   \* Direction4 operations in one walk

----------------------------------------------------------------------------
(* Sequences *)

Min(S) == CHOOSE m \in S : \A n \in S : m <= n
Max(S) == CHOOSE m \in S : \A n \in S : m >= n

SeqsUpTo(A, n) == UNION {[1..k -> A] : k \in 0..n}

----------------------------------------------------------------------------
(* The submission response patterns                                        *)

NL == "\n"

WrongPhrase    == "That's not the right answer"
TooQuickPhrase == "You gave an answer too recently"
ToWaitPhrase   == "to wait"
AlreadyPhrase  == "You don't seem to be solving"
LevelPhrase    == " the right level"
RIGHT          == "That's the right answer!"

Phrases == {WrongPhrase, TooQuickPhrase, ToWaitPhrase, AlreadyPhrase,
            LevelPhrase, RIGHT}

BodyTokens == Phrases \cup {".", "?", NL}

Bodies == SeqsUpTo(BodyTokens, MaxBody)

\* The first character of a token: what a single "." of a pattern consumes.
FirstChar(tok) ==
    CASE tok = WrongPhrase    -> "T"
      [] tok = RIGHT          -> "T"
      [] tok = TooQuickPhrase -> "Y"
      [] tok = AlreadyPhrase  -> "Y"
      [] tok = ToWaitPhrase   -> "t"
      [] tok = LevelPhrase    -> " "
      [] OTHER                -> tok

\* "." of a pattern (no DOTALL flag) matches every character but a line break:
\* s[i..j] can be consumed by ".*"
Dots(s, i, j) == \A k \in i..j : s[k] # NL

NoMatch == [found |-> FALSE, text |-> <<>>]
Match(t) == [found |-> TRUE, text |-> t]

\* WRONG.search(s), WRONG = "That's not the right answer.*?\.": leftmost start,
\* then the shortest ".*?" that a literal period follows.
WrongEnds(s, i) == {j \in (i+1)..Len(s) : s[j] = "." /\ Dots(s, i+1, j-1)}
\* a variant: ".*" in place of ".*?" (the longest stretch, to the last period)
WrongEnd_Greedy(s, i) == Max(WrongEnds(s, i))
WrongEnd(s, i) == Min(WrongEnds(s, i))
WRONG(s) ==
    LET starts == {i \in 1..Len(s) : s[i] = WrongPhrase /\ WrongEnds(s, i) # {}}
    IN  IF starts = {} THEN NoMatch
        ELSE LET i == Min(starts) IN Match(SubSeq(s, i, WrongEnd(s, i)))

\* TOO_QUICK.search(s), TOO_QUICK = "You gave an answer too recently.*to wait.":
\* leftmost start, then the longest ".*" after which "to wait" and one more
\* character (the unescaped final ".") follow.
TooQuickEnds(s, i) ==
    {j \in (i+1)..(Len(s)-1) :
        s[j] = ToWaitPhrase /\ Dots(s, i+1, j-1) /\ s[j+1] # NL}
TOO_QUICK(s) ==
    LET starts == {i \in 1..Len(s) : s[i] = TooQuickPhrase /\ TooQuickEnds(s, i) # {}}
    IN  IF starts = {} THEN NoMatch
        ELSE LET i == Min(starts)
                 j == Max(TooQuickEnds(s, i))
             IN  Match(Append(SubSeq(s, i, j), FirstChar(s[j+1])))

\* ALREADY_DONE.search(s), ALREADY_DONE = "You don't seem to be solving.*\?":
\* leftmost start, then the longest ".*" that a literal "?" follows.
AlreadyEnds(s, i) == {j \in (i+1)..Len(s) : s[j] = "?" /\ Dots(s, i+1, j-1)}
AlreadyEnd(s, i) == Max(AlreadyEnds(s, i))
ALREADY_DONE(s) ==
    LET starts == {i \in 1..Len(s) : s[i] = AlreadyPhrase /\ AlreadyEnds(s, i) # {}}
    IN  IF starts = {} THEN NoMatch
        ELSE LET i == Min(starts) IN Match(SubSeq(s, i, AlreadyEnd(s, i)))

Search(regex, s) ==
    CASE regex = "WRONG"        -> WRONG(s)
      [] regex = "TOO_QUICK"    -> TOO_QUICK(s)
      [] regex = "ALREADY_DONE" -> ALREADY_DONE(s)

\* print(f'\033[41m{...}\033[m'), print(f'\033[42m{...}\033[m'), print(...)
Red(t)   == [sgr |-> "41", text |-> t]
Green(t) == [sgr |-> "42", text |-> t]
Plain(t) == [sgr |-> "", text |-> t]

\* variants: TOO_QUICK tested before WRONG; ALREADY_DONE left out of the loop
ErrorRegexes_TooQuickFirst == <<"TOO_QUICK", "WRONG", "ALREADY_DONE">>
ErrorRegexes_NoAlreadyDone == <<"WRONG", "TOO_QUICK">>

\* the tuple submit_solution loops over
ErrorRegexes == <<"WRONG", "TOO_QUICK", "ALREADY_DONE">>

\* for error_regex in (...): if error_match: print(red); return 1
RECURSIVE ErrorLoop(_, _, _)
ErrorLoop(regexes, k, contents) ==
    IF k > Len(regexes) THEN [branch |-> "", out |-> <<>>, rc |-> <<>>]
    ELSE LET error_match == Search(regexes[k], contents)
         IN  IF error_match.found
             THEN [branch |-> regexes[k], out |-> <<Red(error_match.text)>>, rc |-> <<1>>]
             ELSE ErrorLoop(regexes, k + 1, contents)

\* a variant: the unexpected-output branch returns 0
RightOrUnexpected_ReturnsZero(contents) ==
    IF \E i \in 1..Len(contents) : contents[i] = RIGHT
    THEN [branch |-> "RIGHT", out |-> <<Green(<<RIGHT>>)>>, rc |-> <<0>>]
    ELSE [branch |-> "unexpected", out |-> <<Plain(contents)>>, rc |-> <<0>>]

\* if RIGHT in contents: print(green RIGHT); return 0
\* else: print(contents); return 1
RightOrUnexpected(contents) ==
    IF \E i \in 1..Len(contents) : contents[i] = RIGHT
    THEN [branch |-> "RIGHT", out |-> <<Green(<<RIGHT>>)>>, rc |-> <<0>>]
    ELSE [branch |-> "unexpected", out |-> <<Plain(contents)>>, rc |-> <<1>>]

----------------------------------------------------------------------------
(* The command-line processes                                              *)

NoFiles == [f \in {"input.txt", "part1.py"} |-> <<>>]

InitCli(c) ==
    /\ cmd = c
    /\ pc = "start"
    /\ cwd_ok \in BOOLEAN
    /\ res_ok = TRUE
    /\ res_text = <<>>
    /\ branch = ""
    /\ stdout = <<>>
    /\ status = <<>>

IdleCli ==
    /\ cwd_ok = TRUE /\ day = 1 /\ res_ok = TRUE /\ res_text = <<>>
    /\ branch = "" /\ stdout = <<>> /\ status = <<>> /\ files = NoFiles

\* get_year_day raises AssertionError on an unexpected working directory
GetYearDayRaises ==
    /\ cmd \in {"submit_solution", "download_challenge"}
    /\ pc = "start"
    /\ ~cwd_ok
    /\ pc' = "raised"
    /\ UNCHANGED <<cmd, cliVars, gridVars, adjVars, dirVars>>

\* submit_solution up to and including contents = _post_answer(...): the
\* server's answer is any response; _post_answer returns its .text
PostAnswer ==
    /\ cmd = "submit_solution"
    /\ pc = "start"
    /\ cwd_ok
    /\ \E ok \in BOOLEAN, body \in Bodies :
          /\ res_ok' = ok
          /\ res_text' = body
    /\ stdout' = Append(stdout, Plain(<<"answer: ">>))
    /\ pc' = "classify"
    /\ UNCHANGED <<cmd, cwd_ok, day, branch, status, files, gridVars, adjVars, dirVars>>

\* submit_solution from the loop over the error patterns to its return
Classify ==
    /\ cmd = "submit_solution"
    /\ pc = "classify"
    /\ LET contents == res_text
           e == ErrorLoop(ErrorRegexes, 1, contents)
           r == IF e.branch # "" THEN e ELSE RightOrUnexpected(contents)
       IN  /\ branch' = r.branch
           /\ stdout' = stdout \o r.out
           /\ status' = r.rc
    /\ pc' = "returned"
    /\ UNCHANGED <<cmd, cwd_ok, day, res_ok, res_text, files, gridVars, adjVars, dirVars>>

----------------------------------------------------------------------------
(* download_challenge                                                      *)

InputTokens == {"1", NL}
Inputs == SeqsUpTo(InputTokens, MaxInput)

PageTokens == {"---", "To begin, ", "p"}
Pages == SeqsUpTo(PageTokens, MaxPage)

Quote == "\"\"\""
OldModule == <<Quote, "old", Quote, "code">>

\* str.splitlines() of a text whose only line break is "\n"
RECURSIVE SplitLines(_)
SplitLines(s) ==
    IF s = <<>> THEN <<>>
    ELSE LET nl == {i \in 1..Len(s) : s[i] = NL}
         IN  IF nl = {} THEN <<s>>
             ELSE LET i == Min(nl)
                  IN  <<SubSeq(s, 1, i - 1)>> \o SplitLines(SubSeq(s, i + 1, Len(s)))

\* s.split(sep, maxsplit=1)[0] and s.split(sep)[0]: what stands before the first sep
Before(s, sep) ==
    LET at == {i \in 1..Len(s) : s[i] = sep}
    IN  IF at = {} THEN s ELSE SubSeq(s, 1, Min(at) - 1)

\* the value get_problem returns for a successful response
ProblemOf(page) == <<"---">> \o Before(Before(page, "---"), "To begin, ")

\* the lines download_input prints after writing input.txt
Preview(lines) ==
    IF Len(lines) > 10
    THEN [i \in 1..10 |-> Plain(lines[i])] \o <<Plain(<<"...">>)>>
    ELSE <<Plain(SubSeq(lines[1], 1, IF Len(lines[1]) < 80 THEN Len(lines[1]) ELSE 80)),
           Plain(<<"...">>)>>

InitDownload ==
    /\ InitCli("download_challenge")
    /\ day \in {0, 1}
    /\ files \in {NoFiles, [NoFiles EXCEPT !["part1.py"] = <<OldModule>>]}

\* download_input on day 0: print and sys.exit()
DayZero ==
    /\ cmd = "download_challenge"
    /\ pc = "start"
    /\ cwd_ok
    /\ day = 0
    /\ stdout' = Append(stdout, Plain(<<"days are one-indexed, so day00 is invalid">>))
    /\ status' = <<0>>
    /\ pc' = "exited"
    /\ UNCHANGED <<cmd, cwd_ok, day, res_ok, res_text, branch, files,
                   gridVars, adjVars, dirVars>>

\* download_input with get_input inlined: GET the input; a response that is not ok
\* is printed and the process exits; otherwise input.txt is written and the
\* first lines are printed (lines[0] of an empty input raises IndexError)
DownloadInput ==
    /\ cmd = "download_challenge"
    /\ pc = "start"
    /\ cwd_ok
    /\ day # 0
    /\ \E ok \in BOOLEAN, body \in Inputs :
          /\ res_ok' = ok
          /\ res_text' = body
          /\ IF ~ok
             THEN /\ stdout' = Append(stdout,
                        Plain(<<"problem getting the test input: \"">> \o body \o <<"\"">>))
                  /\ status' = <<0>>
                  /\ files' = files
                  /\ pc' = "exited"
             ELSE /\ files' = [files EXCEPT !["input.txt"] = <<body>>]
                  /\ IF SplitLines(body) = <<>>
                     THEN /\ stdout' = stdout
                          /\ pc' = "raised"
                     ELSE /\ stdout' = stdout \o Preview(SplitLines(body))
                          /\ pc' = "problem"
                  /\ status' = status
    /\ UNCHANGED <<cmd, cwd_ok, day, branch, gridVars, adjVars, dirVars>>

\* download_problem with get_problem inlined, and download_challenge's return 0:
\* GET the page; a response that is not ok is printed and the process exits;
\* otherwise part1.py is read (it must exist) and rewritten
DownloadProblem ==
    /\ cmd = "download_challenge"
    /\ pc = "problem"
    /\ \E ok \in BOOLEAN, page \in Pages :
          /\ res_ok' = ok
          /\ res_text' = page
          /\ IF ~ok
             THEN /\ stdout' = Append(stdout,
                        Plain(<<"problem getting the problem: \"">> \o page \o <<"\"">>))
                  /\ status' = <<0>>
                  /\ files' = files
                  /\ pc' = "exited"
             ELSE IF files["part1.py"] = <<>>
             THEN /\ pc' = "raised"
                  /\ UNCHANGED <<stdout, status, files>>
             ELSE /\ files' = [files EXCEPT !["part1.py"] =
                                  <<<<Quote, NL>> \o ProblemOf(page) \o <<NL, Quote>>>>]
                  /\ status' = <<0>>
                  /\ pc' = "returned"
                  /\ stdout' = stdout
    /\ UNCHANGED <<cmd, cwd_ok, day, branch, gridVars, adjVars, dirVars>>

InitSubmit ==
    /\ InitCli("submit_solution")
    /\ day = 1
    /\ files = NoFiles

----------------------------------------------------------------------------
(* parse_coords_hash, format_coords_hash                                   *)

Cells == (-1 .. GridMax) \X (-1 .. GridMax)
CoordSets == {S \in SUBSET Cells : Cardinality(S) <= MaxCells}

\* range(a, b)
PyRange(a, b) == [i \in 1..(b - a) |-> a + i - 1]

\* sep.join(parts)
RECURSIVE Join(_, _)
Join(sep, parts) ==
    IF parts = <<>> THEN <<>>
    ELSE IF Len(parts) = 1 THEN parts[1]
    ELSE parts[1] \o <<sep>> \o Join(sep, Tail(parts))

\* a variant: coords.add((y, x))
parse_coords_hash_Swapped(s) ==
    LET lines == SplitLines(s)
    IN  {<<y - 1, x - 1>> : <<x, y>> \in
            {c \in (1..Len(s)) \X (1..Len(lines)) :
                c[1] <= Len(lines[c[2]]) /\ lines[c[2]][c[1]] = "#"}}

parse_coords_hash(s) ==
    LET lines == SplitLines(s)
    IN  {<<x - 1, y - 1>> : <<x, y>> \in
            {c \in (1..Len(s)) \X (1..Len(lines)) :
                c[1] <= Len(lines[c[2]]) /\ lines[c[2]][c[1]] = "#"}}

\* a variant: range(min_x, max_x), which leaves the last column out
FormatRow_ShortRange(cs, y, min_x, max_x) ==
    LET xs == PyRange(min_x, max_x)
    IN  [i \in 1..Len(xs) |-> IF <<xs[i], y>> \in cs THEN "#" ELSE " "]

\* ''.join('#' if (x, y) in coords else ' ' for x in range(min_x, max_x + 1))
FormatRow(cs, y, min_x, max_x) ==
    LET xs == PyRange(min_x, max_x + 1)
    IN  [i \in 1..Len(xs) |-> IF <<xs[i], y>> \in cs THEN "#" ELSE " "]

format_coords_hash(cs) ==
    LET min_x == Min({c[1] : c \in cs})
        max_x == Max({c[1] : c \in cs})
        min_y == Min({c[2] : c \in cs})
        max_y == Max({c[2] : c \in cs})
        ys == PyRange(min_y, max_y + 1)
    IN  Join(NL, [i \in 1..Len(ys) |-> FormatRow(cs, ys[i], min_x, max_x)])

IdleGrid == coords = {} /\ text = <<>> /\ parsed = {}

InitGrid ==
    /\ cmd = "format_coords_hash"
    /\ pc = "start"
    /\ coords \in CoordSets
    /\ text = <<>>
    /\ parsed = {}

\* min() of an empty sequence raises ValueError
FormatRaises ==
    /\ cmd = "format_coords_hash"
    /\ pc = "start"
    /\ coords = {}
    /\ pc' = "raised"
    /\ UNCHANGED <<cmd, cliVars, gridVars, adjVars, dirVars>>

Format ==
    /\ cmd = "format_coords_hash"
    /\ pc = "start"
    /\ coords # {}
    /\ text' = format_coords_hash(coords)
    /\ pc' = "formatted"
    /\ UNCHANGED <<cmd, coords, parsed, cliVars, adjVars, dirVars>>

Parse ==
    /\ cmd = "format_coords_hash"
    /\ pc = "formatted"
    /\ parsed' = parse_coords_hash(text)
    /\ pc' = "parsed"
    /\ UNCHANGED <<cmd, coords, text, cliVars, adjVars, dirVars>>

----------------------------------------------------------------------------
(* adjacent_4, adjacent_8                                                  *)

AdjCoords == (-AdjMax .. AdjMax) \X (-AdjMax .. AdjMax)

\* the k-th yield statement of adjacent_4
Adj4Yield(x, y, k) ==
    CASE k = 1 -> <<x, y - 1>>
      [] k = 2 -> <<x + 1, y>>
      [] k = 3 -> <<x, y + 1>>
      [] k = 4 -> <<x - 1, y>>

\* the tuple (-1, 0, 1) both loops of adjacent_8 run over
Offsets == <<-1, 0, 1>>

\* a variant: if y_d == x_d: continue
Adj8Skip_Diagonal(y_d, x_d) == y_d = x_d

\* if y_d == x_d == 0: continue
Adj8Skip(y_d, x_d) == y_d = x_d /\ x_d = 0

IdleAdj == xy = <<0, 0>> /\ gen = [fn |-> "", k |-> 0] /\ yielded = <<>>

InitAdj ==
    /\ cmd = "adjacent"
    /\ pc = "start"
    /\ xy \in AdjCoords
    /\ gen = [fn |-> "", k |-> 0]
    /\ yielded = <<>>

\* calling a generator function runs none of its body
CallAdjacent ==
    /\ cmd = "adjacent"
    /\ pc = "start"
    /\ \E fn \in {"adjacent_4", "adjacent_8"} : gen' = [fn |-> fn, k |-> 0]
    /\ pc' = "iterating"
    /\ UNCHANGED <<cmd, xy, yielded, cliVars, gridVars, dirVars>>

\* next() on adjacent_4: run to the next yield statement
Adjacent4Next ==
    /\ pc = "iterating"
    /\ gen.fn = "adjacent_4"
    /\ gen.k < 4
    /\ yielded' = Append(yielded, Adj4Yield(xy[1], xy[2], gen.k + 1))
    /\ gen' = [gen EXCEPT !.k = @ + 1]
    /\ UNCHANGED <<cmd, pc, xy, cliVars, gridVars, dirVars>>

\* one pass of the inner loop of adjacent_8: pass k has y_d = Offsets[k \div 3 + 1]
\* and x_d = Offsets[k % 3 + 1]
Adjacent8Step ==
    /\ pc = "iterating"
    /\ gen.fn = "adjacent_8"
    /\ gen.k < Len(Offsets) * Len(Offsets)
    /\ LET y_d == Offsets[(gen.k \div Len(Offsets)) + 1]
           x_d == Offsets[(gen.k % Len(Offsets)) + 1]
       IN  yielded' = IF Adj8Skip(y_d, x_d) THEN yielded
                      ELSE Append(yielded, <<xy[1] + x_d, xy[2] + y_d>>)
    /\ gen' = [gen EXCEPT !.k = @ + 1]
    /\ UNCHANGED <<cmd, pc, xy, cliVars, gridVars, dirVars>>

\* the generator's body ends: StopIteration
AdjacentStop ==
    /\ pc = "iterating"
    /\ gen.k = IF gen.fn = "adjacent_4" THEN 4 ELSE Len(Offsets) * Len(Offsets)
    /\ pc' = "exhausted"
    /\ UNCHANGED <<cmd, cliVars, gridVars, adjVars, dirVars>>

----------------------------------------------------------------------------
(* Direction4                                                              *)

\* type(self).__members__.values(): the members in definition order
Direction4 == <<"UP", "RIGHT", "DOWN", "LEFT">>

\* the member's value (x, y)
DirVec(m) ==
    CASE m = "UP"    -> <<0, -1>>
      [] m = "RIGHT" -> <<1, 0>>
      [] m = "DOWN"  -> <<0, 1>>
      [] m = "LEFT"  -> <<-1, 0>>

\* vals.index(self), counted from 0
Index(vals, m) == (CHOOSE i \in 1..Len(vals) : vals[i] = m) - 1

\* vals[i] with Python's index i, counted from 0
At(vals, i) == vals[i + 1]

\* a variant: cw steps back, as ccw does
cw_Retreats(m) == At(Direction4, (Index(Direction4, m) - 1) % Len(Direction4))

cw(m) == At(Direction4, (Index(Direction4, m) + 1) % Len(Direction4))

ccw(m) == At(Direction4, (Index(Direction4, m) - 1) % Len(Direction4))

\* a variant: opposite advances by one
opposite_ByOne(m) == At(Direction4, (Index(Direction4, m) + 1) % Len(Direction4))

opposite(m) == At(Direction4, (Index(Direction4, m) + 2) % Len(Direction4))

apply(m, x, y, n) == <<DirVec(m)[1] * n + x, DirVec(m)[2] * n + y>>

Factors == {-2, 0, 1, 3}
StartCoords == {<<0, 0>>, <<-3, 5>>, <<2, -1>>}

IdleDir == d = "UP" /\ pos = <<0, 0>> /\ hist = <<>>

InitDir ==
    /\ cmd = "Direction4"
    /\ pc = "start"
    /\ d \in {Direction4[i] : i \in 1..Len(Direction4)}
    /\ pos \in StartCoords
    /\ hist = <<[op |-> "start", n |-> 0, d |-> d, pos |-> pos]>>

Turn(op, m) ==
    /\ cmd = "Direction4"
    /\ Len(hist) <= MaxOps
    /\ d' = m
    /\ hist' = Append(hist, [op |-> op, n |-> 0, d |-> m, pos |-> pos])
    /\ UNCHANGED <<cmd, pc, pos, cliVars, gridVars, adjVars>>

Cw == Turn("cw", cw(d))

Ccw == Turn("ccw", ccw(d))

Opposite == Turn("opposite", opposite(d))

\* pos = d.apply(*pos, n=n)
Apply ==
    /\ cmd = "Direction4"
    /\ Len(hist) <= MaxOps
    /\ \E n \in Factors :
          /\ pos' = apply(d, pos[1], pos[2], n)
          /\ hist' = Append(hist, [op |-> "apply", n |-> n, d |-> d, pos |-> pos'])
    /\ UNCHANGED <<cmd, pc, d, cliVars, gridVars, adjVars>>

----------------------------------------------------------------------------
(* The specification                                                       *)

Init ==
    \/ InitSubmit /\ IdleGrid /\ IdleAdj /\ IdleDir
    \/ InitDownload /\ IdleGrid /\ IdleAdj /\ IdleDir
    \/ InitGrid /\ IdleCli /\ IdleAdj /\ IdleDir
    \/ InitAdj /\ IdleCli /\ IdleGrid /\ IdleDir
    \/ InitDir /\ IdleCli /\ IdleGrid /\ IdleAdj

Next ==
    \/ GetYearDayRaises
    \/ PostAnswer
    \/ Classify
    \/ DayZero
    \/ DownloadInput
    \/ DownloadProblem
    \/ FormatRaises
    \/ Format
    \/ Parse
    \/ CallAdjacent
    \/ Adjacent4Next
    \/ Adjacent8Step
    \/ AdjacentStop
    \/ Cw
    \/ Ccw
    \/ Opposite
    \/ Apply

Spec == Init /\ [][Next]_vars

----------------------------------------------------------------------------
(* Properties of submit_solution                                           *)

Returned == cmd = "submit_solution" /\ pc = "returned"

LastLine == stdout[Len(stdout)]

Contains(s, tok) == \E i \in 1..Len(s) : s[i] = tok

\* C1: the response body is tested against WRONG, TOO_QUICK, ALREADY_DONE and
\* then RIGHT, in that order, and the branch taken and the line printed are
\* those of the first test that matches, also when several match; when none
\* matches the body is unrecognized.
C1_FirstMatchWins ==
    Returned =>
        LET s == res_text
            w == WRONG(s)
            q == TOO_QUICK(s)
            a == ALREADY_DONE(s)
            r == Contains(s, RIGHT)
        IN  /\ w.found => branch = "WRONG" /\ LastLine = Red(w.text)
            /\ (~w.found /\ q.found) =>
                    branch = "TOO_QUICK" /\ LastLine = Red(q.text)
            /\ (~w.found /\ ~q.found /\ a.found) =>
                    branch = "ALREADY_DONE" /\ LastLine = Red(a.text)
            /\ (~w.found /\ ~q.found /\ ~a.found /\ r) =>
                    branch = "RIGHT" /\ LastLine = Green(<<RIGHT>>)
            /\ (~w.found /\ ~q.found /\ ~a.found /\ ~r) => branch = "unexpected"

\* a body that matches both WRONG and TOO_QUICK was classified
C1_Witness ==
    /\ Returned
    /\ WRONG(res_text).found
    /\ TOO_QUICK(res_text).found
    /\ branch = "WRONG"

\* C2: submit_solution returns 0 exactly when the body was classified as
\* correct and 1 in every other case; an unrecognized body is printed verbatim
\* and the result is 1.
C2_ReturnCode ==
    Returned =>
        /\ status \in {<<0>>, <<1>>}
        /\ status = <<0>> <=> branch = "RIGHT"
        /\ branch = "unexpected" => LastLine = Plain(res_text) /\ status = <<1>>

\* an unrecognized, non-empty body was printed and the process returned 1
C2_Witness ==
    /\ Returned
    /\ branch = "unexpected"
    /\ Len(res_text) > 1
    /\ status = <<1>>

\* C6: every HTTP request treats a response that is not ok as terminal: the
\* body is printed and the process ends at once, so input.txt is not written,
\* part1.py is not rewritten and the body is not classified.
C6_NonSuccessIsTerminal ==
    ~res_ok =>
        /\ branch = ""
        /\ files["input.txt"] # <<res_text>>
        /\ files["part1.py"] \in {<<>>, <<OldModule>>}
        /\ status # <<>> =>
              /\ pc = "exited"
              /\ \E i \in 1..Len(LastLine.text) :
                    SubSeq(LastLine.text, i, i + Len(res_text) - 1) = res_text

\* what C6 says of get_input and get_problem alone
C6_DownloadIsTerminal == cmd = "download_challenge" => C6_NonSuccessIsTerminal

\* the text "You don't seem to be solving the right level" stands at s[i], s[i+1]
LevelTextAt(s, i) == i < Len(s) /\ s[i] = AlreadyPhrase /\ s[i+1] = LevelPhrase

\* C7 as stated: every body (of a successful response) that contains "You don't seem to be solving the
\* right level" and matches neither WRONG nor TOO_QUICK is classified as
\* already solved, the match is printed highlighted and the result is not 0.
C7_Original ==
    (/\ Returned
     /\ res_ok
     /\ \E i \in 1..Len(res_text) : LevelTextAt(res_text, i)
     /\ ~WRONG(res_text).found
     /\ ~TOO_QUICK(res_text).found)
    => /\ branch = "ALREADY_DONE"
       /\ LastLine.sgr = "41"
       /\ status # <<0>>

\* C7 (amended): every body in which "You don't seem to be solving the right
\* level" is followed, on the same line, by a question mark, and which matches
\* neither WRONG nor TOO_QUICK, is classified as already solved; the printed
\* line is highlighted and is the part of the body from a "You don't seem to
\* be solving" to a later "?" of the same line; the result is 1.
C7_AlreadySolved ==
    (/\ Returned
     /\ \E i \in 1..Len(res_text) :
          /\ LevelTextAt(res_text, i)
          /\ \E j \in (i+2)..Len(res_text) :
                res_text[j] = "?" /\ Dots(res_text, i, j)
     /\ ~WRONG(res_text).found
     /\ ~TOO_QUICK(res_text).found)
    => /\ branch = "ALREADY_DONE"
       /\ LastLine.sgr = "41"
       /\ LET m == LastLine.text
          IN  /\ m[1] = AlreadyPhrase
              /\ m[Len(m)] = "?"
              /\ ~Contains(m, NL)
              /\ \E i \in 1..Len(res_text) : SubSeq(res_text, i, i + Len(m) - 1) = m
       /\ status = <<1>>

\* such a body, with more text after the question mark, was classified
C7_Witness ==
    /\ Returned
    /\ res_ok
    /\ Len(res_text) = 4
    /\ LevelTextAt(res_text, 1)
    /\ res_text[3] = "?"
    /\ branch = "ALREADY_DONE"

\* a wrong-answer sentence: "That's not the right answer" at s[i], a period at s[j]
SentenceAt(s, i, j) == i < j /\ j <= Len(s) /\ s[i] = WrongPhrase /\ s[j] = "."

\* the first period after s[i]
FirstPeriodAfter(s, i) == Min({j \in (i+1)..Len(s) : s[j] = "."})

\* C8 as stated: every body (of a successful response) that contains a sentence starting with "That's not
\* the right answer" is classified as incorrect, the result is 1, and the
\* message is the sentence: from the phrase to the first period after it.
C8_Original ==
    (/\ Returned
     /\ res_ok
     /\ \E i, j \in 1..Len(res_text) : SentenceAt(res_text, i, j))
    => /\ branch = "WRONG"
       /\ status = <<1>>
       /\ \E i \in 1..Len(res_text) :
             /\ res_text[i] = WrongPhrase
             /\ \E j \in 1..Len(res_text) : SentenceAt(res_text, i, j)
             /\ LastLine = Red(SubSeq(res_text, i, FirstPeriodAfter(res_text, i)))

\* C8 (amended): every body that contains "That's not the right answer"
\* followed on the same line by a period is classified as incorrect, the
\* result is 1, and the message starts at the first such phrase and ends at
\* the first period after it: it holds no other period and no line break.
C8_Incorrect ==
    (/\ Returned
     /\ \E i, j \in 1..Len(res_text) :
           SentenceAt(res_text, i, j) /\ Dots(res_text, i, j))
    => /\ branch = "WRONG"
       /\ status = <<1>>
       /\ LastLine.sgr = "41"
       /\ LET s == res_text
              m == LastLine.text
          IN  /\ m[1] = WrongPhrase
              /\ m[Len(m)] = "."
              /\ \A k \in 1..(Len(m) - 1) : m[k] # "." /\ m[k] # NL
              /\ \E i \in 1..Len(s) :
                    /\ SubSeq(s, i, i + Len(m) - 1) = m
                    /\ \A h \in 1..(i-1) :
                          ~\E j \in 1..Len(s) : SentenceAt(s, h, j) /\ Dots(s, h, j)

\* a body with two sentences after the phrase was classified
C8_Witness ==
    /\ Returned
    /\ res_ok
    /\ Len(res_text) = 4
    /\ res_text[1] = WrongPhrase
    /\ res_text[3] = "."
    /\ res_text[4] = "."
    /\ res_text[2] = LevelPhrase
    /\ branch = "WRONG"

----------------------------------------------------------------------------
(* Properties of the grid helpers                                          *)

MinX(cs) == Min({c[1] : c \in cs})
MaxX(cs) == Max({c[1] : c \in cs})
MinY(cs) == Min({c[2] : c \in cs})
MaxY(cs) == Max({c[2] : c \in cs})

\* C3 as stated: for every non-empty set S of coordinates that are all
\* non-negative, parse_coords_hash(format_coords_hash(S)) = S.
C3_Original ==
    (/\ pc = "parsed"
     /\ coords # {}
     /\ \A c \in coords : c[1] >= 0 /\ c[2] >= 0)
    => parsed = coords

\* C3 (amended): for every non-empty set S of coordinates,
\* parse_coords_hash(format_coords_hash(S)) is S moved by (-min_x, -min_y); it
\* is S itself exactly when min_x = 0 and min_y = 0.
C3_RoundTrip ==
    (pc = "parsed" /\ coords # {}) =>
        /\ parsed = {<<c[1] - MinX(coords), c[2] - MinY(coords)>> : c \in coords}
        /\ parsed = coords <=> (MinX(coords) = 0 /\ MinY(coords) = 0)

\* a set of several coordinates that touches both axes came back unchanged
C3_Witness ==
    /\ pc = "parsed"
    /\ Cardinality(coords) = 3
    /\ MinX(coords) = 0
    /\ MinY(coords) = 0
    /\ MaxX(coords) > 0
    /\ MaxY(coords) > 0
    /\ parsed = coords

\* C9: for a non-empty set with bounding box min_x..max_x, min_y..max_y the
\* text has max_y - min_y + 1 lines of max_x - min_x + 1 characters each; the
\* character of line r, column c is "#" if (min_x + c, min_y + r) is in the
\* set and a space otherwise; the first and the last line and the first and
\* the last column each hold a "#".
C9_FormatShape ==
    (pc \in {"formatted", "parsed"} /\ coords # {}) =>
        LET w == MaxX(coords) - MinX(coords) + 1
            h == MaxY(coords) - MinY(coords) + 1
            ch(r, c) == text[r * (w + 1) + c + 1]
        IN  /\ Len(text) = h * w + (h - 1)
            /\ \A r \in 0..(h-1) :
                  /\ r < h - 1 => text[r * (w + 1) + w + 1] = NL
                  /\ \A c \in 0..(w-1) :
                        ch(r, c) = IF <<MinX(coords) + c, MinY(coords) + r>> \in coords
                                   THEN "#" ELSE " "
            /\ \E c \in 0..(w-1) : ch(0, c) = "#"
            /\ \E c \in 0..(w-1) : ch(h - 1, c) = "#"
            /\ \E r \in 0..(h-1) : ch(r, 0) = "#"
            /\ \E r \in 0..(h-1) : ch(r, w - 1) = "#"

\* a set with negative coordinates and holes, three lines of three characters
C9_Witness ==
    /\ pc = "formatted"
    /\ coords = {<<-1, 1>>, <<0, -1>>, <<1, 0>>}
    /\ Len(text) = 11

Abs(n) == IF n < 0 THEN -n ELSE n

Manhattan(a, b) == Abs(a[1] - b[1]) + Abs(a[2] - b[2])

Chebyshev(a, b) ==
    IF Abs(a[1] - b[1]) > Abs(a[2] - b[2]) THEN Abs(a[1] - b[1]) ELSE Abs(a[2] - b[2])

Distinct(q) == \A i, j \in 1..Len(q) : i # j => q[i] # q[j]

\* C4: adjacent_4(x, y) yields exactly 4 pairwise distinct coordinates, each at
\* Manhattan distance 1 from (x, y); adjacent_8(x, y) yields exactly 8 pairwise
\* distinct coordinates, each at Chebyshev distance 1; neither yields (x, y).
C4_Adjacent ==
    /\ \A i \in 1..Len(yielded) : yielded[i] # xy
    /\ (pc = "exhausted" /\ gen.fn = "adjacent_4") =>
          /\ Len(yielded) = 4
          /\ Distinct(yielded)
          /\ \A i \in 1..Len(yielded) : Manhattan(yielded[i], xy) = 1
    /\ (pc = "exhausted" /\ gen.fn = "adjacent_8") =>
          /\ Len(yielded) = 8
          /\ Distinct(yielded)
          /\ \A i \in 1..Len(yielded) : Chebyshev(yielded[i], xy) = 1

\* adjacent_8 ran to its end at a coordinate off both axes
C4_Witness ==
    /\ pc = "exhausted"
    /\ gen.fn = "adjacent_8"
    /\ xy = <<-2, 1>>
    /\ Len(yielded) = 8

----------------------------------------------------------------------------
(* Properties of Direction4                                                *)

Members == {Direction4[i] : i \in 1..Len(Direction4)}

Count(op) == Cardinality({i \in 1..Len(hist) : hist[i].op = op})

\* C5: d.cw.ccw = d and d.opposite.opposite = d for every Direction4 d, and
\* d.apply with factor n followed by d.opposite.apply with the same n gives
\* the coordinate back.
C5_Inverses ==
    /\ \A i \in 1..(Len(hist) - 2) :
          /\ (hist[i+1].op = "cw" /\ hist[i+2].op = "ccw") => hist[i+2].d = hist[i].d
          /\ (hist[i+1].op = "opposite" /\ hist[i+2].op = "opposite") =>
                hist[i+2].d = hist[i].d
    /\ \A i \in 1..(Len(hist) - 3) :
          (/\ hist[i+1].op = "apply"
           /\ hist[i+2].op = "opposite"
           /\ hist[i+3].op = "apply"
           /\ hist[i+3].n = hist[i+1].n)
          => hist[i+3].pos = hist[i].pos

\* a coordinate moved by 3, the direction reversed, and moved by 3 again
C5_Witness ==
    /\ Len(hist) = 4
    /\ hist[2].op = "apply" /\ hist[2].n = 3
    /\ hist[3].op = "opposite"
    /\ hist[4].op = "apply" /\ hist[4].n = 3
    /\ hist[2].pos # hist[1].pos
    /\ pos = hist[1].pos

\* C10: after any sequence of cw, ccw and opposite from the direction with
\* index i (UP = 0, RIGHT = 1, DOWN = 2, LEFT = 3), the direction is one of
\* the four and its index is (i + #cw - #ccw + 2 * #opposite) mod 4.
C10_CyclicIndex ==
    cmd = "Direction4" =>
        /\ d \in Members
        /\ Direction4 = <<"UP", "RIGHT", "DOWN", "LEFT">>
        /\ Index(Direction4, d) =
              (Index(Direction4, hist[1].d)
                  + Count("cw") - Count("ccw") + 2 * Count("opposite")) % 4

\* cw wrapped from LEFT to UP and ccw wrapped back from UP to LEFT
C10_Witness ==
    /\ cmd = "Direction4"
    /\ Len(hist) = 3
    /\ hist[1].d = "LEFT"
    /\ hist[2].op = "cw" /\ hist[2].d = "UP"
    /\ hist[3].op = "ccw" /\ hist[3].d = "LEFT"

====
